---------------------------- MODULE Spec2Model ----------------------------
(***************************************************************************)
(* A model of the spending bot of src/main.py: the expense parser, the     *)
(* JSON-file ledger (load-entire-store / mutate / save-entire-store) and    *)
(* the chat handlers that use them.                                         *)
(*                                                                          *)
(* Texts are sequences of one-character strings.  Amounts are exact         *)
(* decimals, held as integers in units of 10^-FracDigits; the rounding of   *)
(* binary floating point in sums is not modelled.  datetime.now() is a      *)
(* logical clock that advances with every record created.                   *)
(***************************************************************************)
EXTENDS Integers, Sequences, FiniteSets, TLC

VARIABLES
    file,       \* spending_data.json: [exists, content], content a token sequence
    clock,      \* the value datetime.now() returns next
    last,       \* what the most recent handler invocation did (sequential runs)
    task,       \* the handler coroutines in flight (interleaved runs)
    running,    \* the coroutine that holds the event loop, or NoTask
    confirmed,  \* per user, the expenses answered with "Saved" since the last clear
    text,       \* the argument of parse_expense (parser runs)
    parsed      \* what parse_expense returned for text, or Pending

vars == <<file, clock, last, task, running, confirmed, text, parsed>>

-----------------------------------------------------------------------------
(* Bounds of the model *)

\* longest text handed to parse_expense in the parser runs
MaxLen == 5
\* records created in a sequential run
MaxClock == 3
\* records created in a run that fills a history page
MaxHistClock == 16
\* records created in an interleaved run
MaxTaskClock == 2
\* records of the second chat in a run that fills a history page
MaxOtherRecords == 1

\* decimal places an amount keeps: the longest fraction a text of MaxLen
\* characters can carry (a digit, the separator, the fraction, a blank and one
\* character of description)
FracDigits == MaxLen - 4

Scale == 10 ^ FracDigits

-----------------------------------------------------------------------------
(* Characters and str.strip() *)

Digits == <<"0", "1", "2", "3", "4", "5", "6", "7", "8", "9">>

\* \d of the pattern
IsDigit(c) == \E i \in 1..Len(Digits) : Digits[i] = c

DigitValue(c) == (CHOOSE i \in 1..Len(Digits) : Digits[i] = c) - 1

\* \s of the pattern, and what str.strip() removes
IsSpace(c) == c \in {" ", "\n", "\t"}

\* [.,] of the pattern
IsSeparator(c) == c \in {".", ","}

\* str.strip(): the text without its leading and trailing whitespace
Strip(s) ==
    LET keep == {i \in 1..Len(s) : ~IsSpace(s[i])}
    IN  IF keep = {} THEN <<>>
        ELSE SubSeq(s, CHOOSE i \in keep : \A j \in keep : i <= j,
                       CHOOSE i \in keep : \A j \in keep : j <= i)

-----------------------------------------------------------------------------
(* parse_expense *)

None == [some |-> FALSE, amount |-> 0, description |-> <<>>]

Some(a, d) == [some |-> TRUE, amount |-> a, description |-> d]

\* \d+ : a non-empty run of digits
IsDigitRun(s) == Len(s) > 0 /\ \A i \in 1..Len(s) : IsDigit(s[i])

\* \d+(?:[.,]\d+)? : s is wholly a numeral
IsNumeral(s) ==
    \/ IsDigitRun(s)
    \/ \E p \in 2..(Len(s) - 1) :
          /\ IsDigitRun(SubSeq(s, 1, p - 1))
          /\ IsSeparator(s[p])
          /\ IsDigitRun(SubSeq(s, p + 1, Len(s)))

\* as if the pattern were ^(\d+(?:[.,]\d+)?)\s*(.*)$
Matches_optional(s) ==
    {m \in (1..Len(s)) \X (1..Len(s)) :
        /\ m[1] <= m[2]
        /\ m[2] <= Len(s)
        /\ IsNumeral(SubSeq(s, 1, m[1]))
        /\ \A i \in (m[1] + 1)..m[2] : IsSpace(s[i])
        /\ \A i \in (m[2] + 1)..Len(s) : s[i] # "\n"}

\* The ways ^(\d+(?:[.,]\d+)?)\s+(.+)$ matches s: group 1 is s[1..j], the
\* whitespace is s[j+1..k], group 2 is s[k+1..Len(s)] ('.' matches no newline).
Matches(s) ==
    {m \in (1..Len(s)) \X (1..Len(s)) :
        /\ m[1] < m[2]
        /\ m[2] < Len(s)
        /\ IsNumeral(SubSeq(s, 1, m[1]))
        /\ \A i \in (m[1] + 1)..m[2] : IsSpace(s[i])
        /\ \A i \in (m[2] + 1)..Len(s) : s[i] # "\n"}

\* re.match: the greedy match, the one whose \s+ is longest
Match(s) == CHOOSE m \in Matches(s) : \A n \in Matches(s) : n[2] <= m[2]

RECURSIVE DigitsValue(_)
\* the number a run of digits denotes
DigitsValue(s) ==
    IF Len(s) = 0 THEN 0
    ELSE 10 * DigitsValue(SubSeq(s, 1, Len(s) - 1)) + DigitValue(s[Len(s)])

\* float(group1.replace(',', '.')), in units of 10^-FracDigits
ParseFloat(s) ==
    LET seps == {p \in 1..Len(s) : IsSeparator(s[p])}
    IN  IF seps = {} THEN DigitsValue(s) * Scale
        ELSE LET p == CHOOSE q \in seps : TRUE
                 frac == SubSeq(s, p + 1, Len(s))
             IN  DigitsValue(SubSeq(s, 1, p - 1)) * Scale
                   + DigitsValue(frac) * (10 ^ (FracDigits - Len(frac)))

\* lines 57-64
parse_expense(t) ==
    LET s == Strip(t)
    IN  IF Matches(s) = {} THEN None
        ELSE LET m == Match(s)
             IN  Some(ParseFloat(SubSeq(s, 1, m[1])),
                      Strip(SubSeq(s, m[2] + 1, Len(s))))

-----------------------------------------------------------------------------
(* The ledger document: json.dump and json.load *)

\* the chat ids that send updates, as str(update.message.chat.id) renders them
Users == {"101", "202"}

\* line 14: ALLOWED_USER_ID is not set in the environment
ALLOWED_USER_ID == ""

\* lines 18-22
is_authorized(user_id) ==
    IF ALLOWED_USER_ID = "" THEN TRUE ELSE user_id = ALLOWED_USER_ID

NoRecord == [amount |-> 0, description |-> <<>>, date |-> 0]

\* One lexical piece of the JSON text: a brace, a bracket, an object key or
\* one expense object.
Token(t, k, r) == [t |-> t, key |-> k, rec |-> r]

Punct(t) == Token(t, "", NoRecord)

\* the dict json.load returns, in key order: a sequence of [key, recs]
Entry(k, recs) == [key |-> k, recs |-> recs]

HasKey(data, k) == \E i \in 1..Len(data) : data[i].key = k

IndexOf(data, k) == CHOOSE i \in 1..Len(data) : data[i].key = k

\* data[k]
Get(data, k) == data[IndexOf(data, k)].recs

RECURSIVE JsonDump_entries(_, _)
JsonDump_entries(data, i) ==
    IF i > Len(data) THEN <<>>
    ELSE <<Token("key", data[i].key, NoRecord), Punct("[")>>
           \o [n \in 1..Len(data[i].recs) |-> Token("rec", "", data[i].recs[n])]
           \o <<Punct("]")>>
           \o JsonDump_entries(data, i + 1)

\* json.dump(data, f, ...): the text written, piece by piece
JsonDump(data) == <<Punct("{")>> \o JsonDump_entries(data, 1) \o <<Punct("}")>>

\* json.load raised JSONDecodeError
LoadError == [ok |-> FALSE, data |-> <<>>]

Loaded(data) == [ok |-> TRUE, data |-> data]

\* the first position from i on that holds no expense object
RecsEnd(toks, i) ==
    LET stop == {j \in i..Len(toks) : toks[j].t # "rec"}
    IN  IF stop = {} THEN Len(toks) + 1
        ELSE CHOOSE j \in stop : \A n \in stop : j <= n

RECURSIVE JsonLoad_entries(_, _, _)
\* the members of the object from position i on, up to the closing brace
JsonLoad_entries(toks, i, acc) ==
    IF i > Len(toks) THEN LoadError
    ELSE IF toks[i].t = "}"
         THEN IF i = Len(toks) THEN Loaded(acc) ELSE LoadError
    ELSE IF toks[i].t = "key" /\ i + 1 <= Len(toks) /\ toks[i + 1].t = "["
         THEN LET j == RecsEnd(toks, i + 2)
              IN  IF j <= Len(toks) /\ toks[j].t = "]"
                  THEN JsonLoad_entries(toks, j + 1,
                          Append(acc, Entry(toks[i].key,
                              [n \in 1..(j - i - 2) |-> toks[i + 1 + n].rec])))
                  ELSE LoadError
    ELSE LoadError

\* json.load(f): the dict the text denotes, or a decode error
JsonLoad(toks) ==
    IF Len(toks) = 0 \/ toks[1].t # "{" THEN LoadError
    ELSE JsonLoad_entries(toks, 2, <<>>)

NoFile == [exists |-> FALSE, content |-> <<>>]

\* lines 25-30
load_spending_data(f) ==
    IF f.exists THEN JsonLoad(f.content) ELSE Loaded(<<>>)

\* lines 33-36, run to completion
save_spending_data(data) == [exists |-> TRUE, content |-> JsonDump(data)]

\* lines 46-50
Expense(amount, description, now) ==
    [amount |-> amount, description |-> description, date |-> now]

\* as if line 52 assigned the list instead of appending to it
WithExpense_replace(data, user_id, expense) ==
    IF HasKey(data, user_id)
    THEN [data EXCEPT ![IndexOf(data, user_id)].recs = <<expense>>]
    ELSE Append(data, Entry(user_id, <<expense>>))

\* lines 43-52: data with the expense appended to user_id's list
WithExpense(data, user_id, expense) ==
    IF HasKey(data, user_id)
    THEN [data EXCEPT ![IndexOf(data, user_id)].recs = Append(@, expense)]
    ELSE Append(data, Entry(user_id, <<expense>>))

\* as if line 144 emptied the dict
WithoutKey_all(data, user_id) == <<>>

\* line 144: del data[user_id]
WithoutKey(data, user_id) ==
    LET keep == {i \in 1..Len(data) : data[i].key # user_id}
        nth(n) == CHOOSE i \in keep : Cardinality({j \in keep : j < i}) = n - 1
    IN  [n \in 1..Cardinality(keep) |-> data[nth(n)]]

\* lines 39-54: the file add_expense leaves, given the dict it loaded
add_expense(data, user_id, amount, description, now) ==
    save_spending_data(
        WithExpense(data, user_id, Expense(amount, description, now)))

\* the records the persisted ledger holds for a user (empty for an unknown key)
Records(f, user_id) ==
    LET l == load_spending_data(f)
    IN  IF l.ok /\ HasKey(l.data, user_id) THEN Get(l.data, user_id) ELSE <<>>

-----------------------------------------------------------------------------
(* Replies and the query views *)

\* line 109: data[user_id][-10:]
HistoryLimit == 10

\* What a handler hands to reply_text.  kind names the message; the other
\* fields are the values formatted into it.
Reply(kind) ==
    [kind |-> kind, amount |-> 0, description |-> <<>>, shown |-> <<>>,
     total |-> 0, count |-> 0]

\* the handler returned or raised before any reply
NoReply == Reply("none")

\* the handler raised: the error handler of lines 177-178 prints, nothing is sent
Raised == Reply("exception")

\* line 165
SavedReply(amount, description) ==
    [Reply("saved") EXCEPT !.amount = amount, !.description = description]

\* lines 167-172
DidntUnderstand == Reply("didnt_understand")

\* as if line 109 took seq[:n]
LastN_first(seq, n) ==
    IF Len(seq) <= n THEN seq ELSE SubSeq(seq, 1, n)

\* seq[-n:]
LastN(seq, n) ==
    IF Len(seq) <= n THEN seq ELSE SubSeq(seq, Len(seq) - n + 1, Len(seq))

\* reversed(seq)
Reversed(seq) == [i \in 1..Len(seq) |-> seq[Len(seq) + 1 - i]]

RECURSIVE Sum_truncating(_)
\* as if line 130 summed int(exp['amount'])
Sum_truncating(recs) ==
    IF Len(recs) = 0 THEN 0
    ELSE Sum_truncating(SubSeq(recs, 1, Len(recs) - 1))
           + (recs[Len(recs)].amount \div Scale) * Scale

RECURSIVE Sum(_)
\* sum(exp['amount'] for exp in recs)
Sum(recs) ==
    IF Len(recs) = 0 THEN 0
    ELSE Sum(SubSeq(recs, 1, Len(recs) - 1)) + recs[Len(recs)].amount

\* lines 103-116: the reply of /history, given the dict loaded; one line per
\* expense shown, in the order of the lines
history_reply(data, user_id) ==
    IF ~HasKey(data, user_id) \/ Len(Get(data, user_id)) = 0
    THEN Reply("no_history")
    ELSE [Reply("history") EXCEPT
            !.shown = Reversed(LastN(Get(data, user_id), HistoryLimit))]

\* lines 124-133: the reply of /total, given the dict loaded
total_reply(data, user_id) ==
    IF ~HasKey(data, user_id) \/ Len(Get(data, user_id)) = 0
    THEN Reply("no_spending")
    ELSE [Reply("total") EXCEPT !.total = Sum(Get(data, user_id)),
                                !.count = Len(Get(data, user_id))]

\* line 147
ClearedReply == Reply("cleared")

-----------------------------------------------------------------------------
(* The handlers, each run from its first line to its last with no other    *)
(* handler in between.  An unauthorized update returns at once and changes  *)
(* nothing: it is a stuttering step.                                        *)

\* the record of one handler invocation
Invocation(op, user_id, t, saved, expense, reply) ==
    [op |-> op, user |-> user_id, text |-> t, saved |-> saved,
     expense |-> expense, reply |-> reply]

NoInvocation == Invocation("none", "", <<>>, FALSE, NoRecord, NoReply)

\* as if line 162 took the failure value for a parse too
Truthy_always(expense) == TRUE

\* line 162: `if expense:` (None is falsy, a 2-tuple is truthy)
Truthy(expense) == expense.some

\* lines 150-175
handle_message(user_id, t) ==
    /\ is_authorized(user_id)
    /\ LET expense == parse_expense(t)
           l == load_spending_data(file)
           new == Expense(expense.amount, expense.description, clock)
       IN  IF Truthy(expense)
           THEN IF l.ok
                THEN /\ file' = add_expense(l.data, user_id, expense.amount,
                                            expense.description, clock)
                     /\ clock' = clock + 1
                     /\ last' = Invocation("message", user_id, t, TRUE, new,
                                   SavedReply(expense.amount, expense.description))
                ELSE /\ last' = Invocation("message", user_id, t, FALSE,
                                           NoRecord, Raised)
                     /\ UNCHANGED <<file, clock>>
           ELSE /\ last' = Invocation("message", user_id, t, FALSE, NoRecord,
                                      DidntUnderstand)
                /\ UNCHANGED <<file, clock>>
    /\ UNCHANGED <<task, running, confirmed, text, parsed>>

\* lines 136-147
clear_command(user_id) ==
    /\ is_authorized(user_id)
    /\ LET l == load_spending_data(file)
       IN  IF ~l.ok
           THEN /\ last' = Invocation("clear", user_id, <<>>, FALSE, NoRecord, Raised)
                /\ UNCHANGED file
           ELSE IF HasKey(l.data, user_id)
           THEN /\ file' = save_spending_data(WithoutKey(l.data, user_id))
                /\ last' = Invocation("clear", user_id, <<>>, TRUE, NoRecord,
                                      ClearedReply)
           ELSE /\ last' = Invocation("clear", user_id, <<>>, FALSE, NoRecord,
                                      ClearedReply)
                /\ UNCHANGED file
    /\ UNCHANGED <<clock, task, running, confirmed, text, parsed>>

\* lines 98-116
history_command(user_id) ==
    /\ is_authorized(user_id)
    /\ LET l == load_spending_data(file)
       IN  last' = Invocation("history", user_id, <<>>, FALSE, NoRecord,
                      IF l.ok THEN history_reply(l.data, user_id) ELSE Raised)
    /\ UNCHANGED <<file, clock, task, running, confirmed, text, parsed>>

\* lines 119-133
total_command(user_id) ==
    /\ is_authorized(user_id)
    /\ LET l == load_spending_data(file)
       IN  last' = Invocation("total", user_id, <<>>, FALSE, NoRecord,
                      IF l.ok THEN total_reply(l.data, user_id) ELSE Raised)
    /\ UNCHANGED <<file, clock, task, running, confirmed, text, parsed>>

-----------------------------------------------------------------------------
(* Sequential runs: updates handled one at a time, from a fresh deployment *)

\* "15 a"
T_15_a == <<"1", "5", " ", "a">>
\* "2,5  b " : a decimal comma, two blanks, a trailing blank
T_2c5_b == <<"2", ",", "5", " ", " ", "b", " ">>
\* "0 c"
T_0_c == <<"0", " ", "c">>
\* "15" : a bare number
T_15 == <<"1", "5">>
\* "a 15" : no leading numeral
T_a_15 == <<"a", " ", "1", "5">>

\* the message texts of the sequential runs
Texts == {T_15_a, T_2c5_b, T_0_c, T_15, T_a_15}

NoTask == 0

\* the handler coroutines that may be in flight at once
Tasks == {1, 2}

\* a coroutine: where it stands, the update it handles, the dict it loaded,
\* the expense it parsed or built, and the reply it hands to reply_text
Task(pc, op, user_id, t, data, expense, reply) ==
    [pc |-> pc, op |-> op, user |-> user_id, text |-> t, data |-> data,
     expense |-> expense, reply |-> reply]

IdleTask == Task("idle", "none", "", <<>>, <<>>, NoRecord, NoReply)

Pending == [some |-> FALSE, amount |-> -1, description |-> <<>>]

Init ==
    /\ file = NoFile
    /\ clock = 1
    /\ last = NoInvocation
    /\ task = [h \in Tasks |-> IdleTask]
    /\ running = NoTask
    /\ confirmed = [u \in Users |-> <<>>]
    /\ text = <<>>
    /\ parsed = Pending

Next ==
    \/ \E u \in Users, t \in Texts : clock <= MaxClock /\ handle_message(u, t)
    \/ \E u \in Users : clear_command(u)
    \/ \E u \in Users : history_command(u)
    \/ \E u \in Users : total_command(u)

Spec == Init /\ [][Next]_vars

-----------------------------------------------------------------------------
(* Runs that fill a history page: one chat logs the same expense over and  *)
(* over, a second chat logs a few, and both ask for their history.          *)

FirstUser == "101"

NextHist ==
    \/ /\ clock <= MaxHistClock
       /\ handle_message(FirstUser, T_15_a)
    \/ \E u \in Users \ {FirstUser} :
          /\ clock <= MaxHistClock
          /\ Len(Records(file, u)) < MaxOtherRecords
          /\ handle_message(u, T_2c5_b)
    \/ \E u \in Users : history_command(u)

SpecHist == Init /\ [][NextHist]_vars

-----------------------------------------------------------------------------
(* Parser runs: parse_expense applied to every text of up to MaxLen         *)
(* characters over Chars.                                                   *)

Chars == {"1", "5", ".", ",", " ", "\n", "a"}

RECURSIVE TextsUpTo(_)
TextsUpTo(n) ==
    IF n = 0 THEN {<<>>}
    ELSE LET shorter == TextsUpTo(n - 1)
         IN  shorter \cup {Append(t, c) : t \in {x \in shorter : Len(x) = n - 1},
                                          c \in Chars}

InitParse ==
    /\ file = NoFile
    /\ clock = 1
    /\ last = NoInvocation
    /\ task = [h \in Tasks |-> IdleTask]
    /\ running = NoTask
    /\ confirmed = [u \in Users |-> <<>>]
    /\ text \in TextsUpTo(MaxLen)
    /\ parsed = Pending

\* line 160: expense = parse_expense(text)
call_parse_expense ==
    /\ parsed = Pending
    /\ parsed' = parse_expense(text)
    /\ UNCHANGED <<file, clock, last, task, running, confirmed, text>>

SpecParse == InitParse /\ [][call_parse_expense]_vars

-----------------------------------------------------------------------------
(* Runs with failing saves: line 35 has truncated the file and json.dump    *)
(* stops (the process is killed, the disk is full) after n pieces of text.  *)

\* lines 33-36, stopped after n pieces
save_interrupted(data, n) ==
    [exists |-> TRUE, content |-> SubSeq(JsonDump(data), 1, n)]

\* lines 150-164, with the save of line 53 stopped
handle_message_save_fails(user_id, t) ==
    /\ is_authorized(user_id)
    /\ LET expense == parse_expense(t)
           l == load_spending_data(file)
           data == WithExpense(l.data, user_id,
                      Expense(expense.amount, expense.description, clock))
       IN  /\ Truthy(expense)
           /\ l.ok
           /\ \E n \in 0..(Len(JsonDump(data)) - 1) :
                 file' = save_interrupted(data, n)
    /\ clock' = clock + 1
    /\ last' = Invocation("message", user_id, t, TRUE, NoRecord, Raised)
    /\ UNCHANGED <<task, running, confirmed, text, parsed>>

\* lines 136-145, with the save of line 145 stopped
clear_command_save_fails(user_id) ==
    /\ is_authorized(user_id)
    /\ LET l == load_spending_data(file)
           data == WithoutKey(l.data, user_id)
       IN  /\ l.ok
           /\ HasKey(l.data, user_id)
           /\ \E n \in 0..(Len(JsonDump(data)) - 1) :
                 file' = save_interrupted(data, n)
    /\ last' = Invocation("clear", user_id, <<>>, TRUE, NoRecord, Raised)
    /\ UNCHANGED <<clock, task, running, confirmed, text, parsed>>

NextCrash ==
    \/ Next
    \/ \E u \in Users, t \in Texts :
          clock <= MaxClock /\ handle_message_save_fails(u, t)
    \/ \E u \in Users : clear_command_save_fails(u)

SpecCrash == Init /\ [][NextCrash]_vars

-----------------------------------------------------------------------------
(* Interleaved runs: handler coroutines in flight at once.  A coroutine     *)
(* takes one step from handler entry through load_spending_data, one from   *)
(* there through save_spending_data to the await of reply_text, and one     *)
(* when the reply has been sent.                                            *)

\* as if the file were written with an awaited call (lines 53, 145)
AwaitPoint_async_save(pc) == pc \in {"idle", "reply", "loaded"}

\* Where a coroutine yields the event loop: at `await reply_text` (lines 147,
\* 175) and when it ends; lines 39-54 and 141-145 hold no await.
AwaitPoint(pc) == pc \in {"idle", "reply"}

\* as if the dict were loaded again right before it is changed and saved
SnapshotAtSave_reload(h) == load_spending_data(file).data

\* lines 41, 141: the dict a coroutine changes and saves is the one it loaded
SnapshotAtSave(h) == task[h].data

Yield(h, pc) == IF AwaitPoint(pc) THEN NoTask ELSE h

\* lines 150-160 and line 41
message_begin(h, user_id, t) ==
    /\ is_authorized(user_id)
    /\ task[h].pc = "idle"
    /\ LET expense == parse_expense(t)
           l == load_spending_data(file)
           parsedExpense == Expense(expense.amount, expense.description, 0)
           next == IF ~Truthy(expense)
                   THEN Task("reply", "message", user_id, t, <<>>, NoRecord,
                             DidntUnderstand)
                   ELSE IF l.ok
                   THEN Task("loaded", "message", user_id, t, l.data,
                             parsedExpense, NoReply)
                   ELSE Task("idle", "message", user_id, t, <<>>, NoRecord, Raised)
       IN  /\ task' = [task EXCEPT ![h] = next]
           /\ running' = Yield(h, next.pc)
    /\ UNCHANGED <<file, clock, last, confirmed, text, parsed>>

\* lines 43-54 and 165-174
message_save(h) ==
    /\ task[h].pc = "loaded"
    /\ task[h].op = "message"
    /\ LET expense == Expense(task[h].expense.amount,
                              task[h].expense.description, clock)
       IN  /\ file' = save_spending_data(
                         WithExpense(SnapshotAtSave(h), task[h].user, expense))
           /\ task' = [task EXCEPT ![h] =
                          Task("reply", "message", task[h].user, task[h].text,
                               <<>>, expense,
                               SavedReply(expense.amount, expense.description))]
           /\ confirmed' = [confirmed EXCEPT ![task[h].user] = Append(@, expense)]
    /\ clock' = clock + 1
    /\ running' = Yield(h, "reply")
    /\ UNCHANGED <<last, text, parsed>>

\* lines 136-141
clear_begin(h, user_id) ==
    /\ is_authorized(user_id)
    /\ task[h].pc = "idle"
    /\ LET l == load_spending_data(file)
           next == IF l.ok
                   THEN Task("loaded", "clear", user_id, <<>>, l.data, NoRecord,
                             NoReply)
                   ELSE Task("idle", "clear", user_id, <<>>, <<>>, NoRecord, Raised)
       IN  /\ task' = [task EXCEPT ![h] = next]
           /\ running' = Yield(h, next.pc)
    /\ UNCHANGED <<file, clock, last, confirmed, text, parsed>>

\* lines 143-147
clear_save(h) ==
    /\ task[h].pc = "loaded"
    /\ task[h].op = "clear"
    /\ file' = IF HasKey(SnapshotAtSave(h), task[h].user)
               THEN save_spending_data(WithoutKey(SnapshotAtSave(h), task[h].user))
               ELSE file
    /\ task' = [task EXCEPT ![h] =
                   Task("reply", "clear", task[h].user, <<>>, <<>>, NoRecord,
                        ClearedReply)]
    /\ confirmed' = [confirmed EXCEPT ![task[h].user] = <<>>]
    /\ running' = Yield(h, "reply")
    /\ UNCHANGED <<clock, last, text, parsed>>

\* lines 147, 175: reply_text has sent the reply and the handler returns
reply_sent(h) ==
    /\ task[h].pc = "reply"
    /\ task' = [task EXCEPT ![h].pc = "idle", ![h].text = <<>>]
    /\ running' = Yield(h, "idle")
    /\ UNCHANGED <<file, clock, last, confirmed, text, parsed>>

\* the message texts of the interleaved runs
TaskTexts == {T_15_a, T_15}

\* the host lets invocations interleave at every load and save
NextRace ==
    \E h \in Tasks :
        \/ \E u \in Users, t \in TaskTexts :
              clock <= MaxTaskClock /\ message_begin(h, u, t)
        \/ message_save(h)
        \/ \E u \in Users : clear_begin(h, u)
        \/ clear_save(h)
        \/ reply_sent(h)

SpecRace == Init /\ [][NextRace]_vars

\* the event loop is free, or h holds it
MayRun(h) == running \in {NoTask, h}

\* cooperative scheduling: a coroutine keeps the event loop until it yields
NextCoop ==
    \E h \in Tasks :
        \/ \E u \in Users, t \in TaskTexts :
              MayRun(h) /\ clock <= MaxTaskClock /\ message_begin(h, u, t)
        \/ MayRun(h) /\ message_save(h)
        \/ \E u \in Users : MayRun(h) /\ clear_begin(h, u)
        \/ MayRun(h) /\ clear_save(h)
        \/ MayRun(h) /\ reply_sent(h)

SpecCoop == Init /\ [][NextCoop]_vars

-----------------------------------------------------------------------------
(* The claims *)

\* a is an initial part of b
IsPrefix(a, b) == Len(a) <= Len(b) /\ SubSeq(b, 1, Len(a)) = a

Min(a, b) == IF a <= b THEN a ELSE b

\* C1: a message that parse_expense rejects leaves the persisted ledger as it
\* was, calls no save, and is answered with the "I didn't understand" guidance.
C1_MalformedNeverMutates ==
    [][(last'.op = "message" /\ ~parse_expense(last'.text).some)
         => /\ file' = file
            /\ ~last'.saved
            /\ last'.reply = DidntUnderstand]_vars

\* a rejected message arrived while the ledger held records
C1_Witness ==
    /\ last.op = "message"
    /\ last.text = T_15
    /\ last.reply = DidntUnderstand
    /\ Len(Records(file, last.user)) >= 1

\* C2: a saved expense makes the user's sequence its previous sequence followed
\* by the one record add_expense built from the parsed amount and description,
\* leaves every other user's sequence alone, and only a clear by the same user
\* ever makes a sequence anything but an extension of what it was.
C2_AppendOnly ==
    [][/\ (last'.op = "message" /\ last'.saved)
            => LET u == last'.user
                   p == parse_expense(last'.text)
               IN  /\ Records(file', u) = Append(Records(file, u), last'.expense)
                   /\ last'.expense.amount = p.amount
                   /\ last'.expense.description = p.description
                   /\ \A v \in Users \ {u} : Records(file', v) = Records(file, v)
       /\ \A v \in Users :
            ~IsPrefix(Records(file, v), Records(file', v))
               => (last'.op = "clear" /\ last'.user = v)]_vars

\* an expense was appended behind an earlier one while another user held records
C2_Witness ==
    /\ last.op = "message"
    /\ last.saved
    /\ Len(Records(file, last.user)) >= 2
    /\ Records(file, last.user)[Len(Records(file, last.user))] = last.expense
    /\ \E v \in Users \ {last.user} : Len(Records(file, v)) >= 1

\* C3: every record of the ledger has a positive amount and a description that
\* is non-empty after trimming.
C3_RecordsValid ==
    \A u \in Users : \A i \in 1..Len(Records(file, u)) :
        /\ Records(file, u)[i].amount > 0
        /\ Strip(Records(file, u)[i].description) # <<>>

\* C5: a clear leaves the user's sequence empty and is answered without error,
\* leaves every other user's sequence alone, and when the user had no records
\* (as on the second of two clears) it does not rewrite the store.
C5_ClearIdempotent ==
    [][last'.op = "clear"
         => LET u == last'.user
            IN  /\ Records(file', u) = <<>>
                /\ last'.reply = ClearedReply
                /\ \A v \in Users \ {u} : Records(file', v) = Records(file, v)
                /\ Records(file, u) = <<>> => (file' = file /\ ~last'.saved)]_vars

\* a clear found no key to delete while another user held records
C5_Witness ==
    /\ last.op = "clear"
    /\ ~last.saved
    /\ last.reply = ClearedReply
    /\ Records(file, last.user) = <<>>
    /\ \E v \in Users \ {last.user} : Len(Records(file, v)) >= 1

\* C6: the history of a user with k records shows the last min(k, 10) of them,
\* newest first, and nothing else.
C6_HistoryLastTen ==
    last.op = "history"
      => LET recs == Records(file, last.user)
             k == Len(recs)
             shown == last.reply.shown
         IN  /\ Len(shown) = Min(k, HistoryLimit)
             /\ \A i \in 1..Len(shown) : shown[i] = recs[k + 1 - i]
             /\ (k = 0) = (last.reply.kind = "no_history")

\* a history was asked for by a user with fifteen records while another
\* user held records
C6_Witness ==
    /\ last.op = "history"
    /\ Len(Records(file, last.user)) = HistoryLimit + 5
    /\ Len(last.reply.shown) = HistoryLimit
    /\ \E v \in Users \ {last.user} : Len(Records(file, v)) >= 1

RECURSIVE AmountsFrom(_, _)
\* the amounts of recs[i..], added up
AmountsFrom(recs, i) ==
    IF i > Len(recs) THEN 0 ELSE recs[i].amount + AmountsFrom(recs, i + 1)

\* the (sum, count) a reply of /total reports: "No spending yet!" reports none
TotalsOf(reply) ==
    IF reply.kind = "no_spending" THEN <<0, 0>> ELSE <<reply.total, reply.count>>

\* C7: /total reports the sum of the amounts and the number of the user's
\* records; for an unknown key it reports no spending (0.0 / 0), not an error.
C7_Totals ==
    last.op = "total"
      => LET recs == Records(file, last.user)
         IN  /\ last.reply.kind \in {"total", "no_spending"}
             /\ TotalsOf(last.reply) = <<AmountsFrom(recs, 1), Len(recs)>>
             /\ (recs = <<>>) = (last.reply.kind = "no_spending")

\* a total was asked for by a user with records of 15 and of 2.5
C7_Witness ==
    /\ last.op = "total"
    /\ last.reply.count >= 2
    /\ \E i, j \in 1..Len(Records(file, last.user)) :
          /\ Records(file, last.user)[i].amount = 15 * Scale
          /\ Records(file, last.user)[j].amount * 2 = 5 * Scale

\* the length of the longest numeral (digits, or digits [.,] digits) s starts with
NumeralLen(s) ==
    LET digitsFrom(i) ==
            LET stop == {j \in i..Len(s) : ~IsDigit(s[j])}
            IN  IF stop = {} THEN Len(s) + 1 - i
                ELSE (CHOOSE j \in stop : \A n \in stop : j <= n) - i
        whole == digitsFrom(1)
    IN  IF whole = 0 THEN 0
        ELSE IF whole + 1 <= Len(s) /\ IsSeparator(s[whole + 1])
                  /\ digitsFrom(whole + 2) > 0
             THEN whole + 1 + digitsFrom(whole + 2)
        ELSE whole

\* the trimmed text is a bare number
LacksDescription(t) ==
    Len(Strip(t)) > 0 /\ NumeralLen(Strip(t)) = Len(Strip(t))

\* the trimmed text starts with a numeral that whitespace follows
LeadingNumeral(t) ==
    LET s == Strip(t)
        n == NumeralLen(s)
    IN  n > 0 /\ n < Len(s) /\ IsSpace(s[n + 1])

\* C8: parse_expense returns None for every text that lacks a description or
\* does not start with a numeral followed by whitespace.
C8_ParseRejects ==
    (parsed # Pending /\ (LacksDescription(text) \/ ~LeadingNumeral(text)))
      => parsed = None

\* a bare decimal number between blanks was parsed
C8_Witness ==
    /\ text = <<" ", "1", ",", "5", " ">>
    /\ parsed = None

\* C4: a later load never observes a partially written or emptied document,
\* even when a save failed or was interrupted.
C4_SaveAtomic == load_spending_data(file).ok

\* the ledger as coroutine h loaded it, for user v
SnapshotRecords(h, v) ==
    IF HasKey(task[h].data, v) THEN Get(task[h].data, v) ELSE <<>>

\* C9: when invocations interleave between load and save, a save writes back
\* the ledger as its own invocation loaded it plus its own change (a clear that
\* loaded no key for its user saves nothing), whatever was saved in between:
\* the last writer wins and the other update is lost.
C9_SaveWritesSnapshot ==
    [][\A h \in Tasks :
         (task[h].pc = "loaded" /\ task'[h].pc = "reply")
           => \A v \in Users :
                Records(file', v) =
                  IF task[h].op = "clear"
                       /\ SnapshotRecords(h, task[h].user) = <<>>
                  THEN Records(file, v)
                  ELSE IF v # task[h].user THEN SnapshotRecords(h, v)
                  ELSE IF task[h].op = "clear" THEN <<>>
                  ELSE Append(SnapshotRecords(h, v), task'[h].expense)]_vars

\* both invocations have ended with a "Saved" reply and no clear ran, yet the
\* persisted ledger lacks the expense one of them confirmed
C9_Witness ==
    /\ \A h \in Tasks : task[h].pc = "idle" /\ task[h].reply.kind = "saved"
    /\ \E h \in Tasks :
          /\ \E i \in 1..Len(confirmed[task[h].user]) :
                confirmed[task[h].user][i] = task[h].expense
          /\ \A i \in 1..Len(Records(file, task[h].user)) :
                Records(file, task[h].user)[i] # task[h].expense

\* C10: when coroutines interleave only at their await points, the persisted
\* sequence of every user is exactly the expenses answered with "Saved" since
\* that user's last clear, in the order the answers were made.
C10_NoLostUpdate == \A u \in Users : Records(file, u) = confirmed[u]

\* two coroutines are both awaiting the delivery of their "Saved" replies for
\* the same user, and the ledger holds both expenses
C10_Witness ==
    /\ \A h \in Tasks : task[h].pc = "reply" /\ task[h].reply.kind = "saved"
    /\ \E u \in Users :
          /\ \A h \in Tasks : task[h].user = u
          /\ Len(Records(file, u)) >= 2

=============================================================================
